---------------------------- MODULE Spec2Model ----------------------------
(***************************************************************************)
(* Model of src/src/App.jsx: the haversine distance, Kruskal's minimum     *)
(* spanning tree builder (buildMinimumSpanningTree) with its union-find,   *)
(* and the MapView effect that redraws the tree when the province filter   *)
(* changes.                                                                *)
(*                                                                         *)
(* Two specifications share the builder's steps:                           *)
(*   Spec     buildMinimumSpanningTree invoked once on any bounded list    *)
(*            of points (duplicate ids and coincident points included);    *)
(*   SpecMap  the MapView component: map load, csv load, filter changes,   *)
(*            each running the effect, which calls the builder.            *)
(***************************************************************************)
EXTENDS Integers, Sequences, FiniteSets

VARIABLES
    map,             \* MapView: the map state (FALSE = null, TRUE = instance)
    nodes,           \* MapView: the nodes state (rows parsed from data.csv)
    fetched,         \* MapView: the fetch of line 103 has resolved
    provinceFilter,  \* MapView: the provinceFilter state
    polylineRef,     \* MapView: polylineRef.current, a list of polylines
    hasCleanup,      \* MapView: the last effect run returned its cleanup
    dropped,         \* polylines no array of the program holds any more
    pc,              \* position: idle, effect, loop, findB, test, returned
    bNodes,          \* builder: its parameter nodes
    edges,           \* builder: the sorted candidate edges
    parent,          \* builder: the union-find map
    mst,             \* builder: the accepted edges
    k,               \* builder: position of the for-of loop in edges
    rootA,           \* builder: const rootA of the current iteration
    rootB,           \* builder: const rootB of the current iteration
    seen             \* history: <<input, output>> of the invocations so far

vars == <<map, nodes, fetched, provinceFilter, polylineRef, hasCleanup,
          dropped, pc, bNodes, edges, parent, mst, k, rootA, rootB, seen>>

mapVars == <<map, nodes, fetched, provinceFilter, polylineRef, hasCleanup,
             dropped, seen>>

-----------------------------------------------------------------------------
(* Bounds of the model *)

\* Longest list handed to buildMinimumSpanningTree under Spec.
MaxNodes == 4

\* Longest such list in which two points may share an id.
MaxDupNodes == 3

\* Most rows data.csv yields under SpecMap.
MaxRows == 3

\* Latitudes and longitudes (decimal degrees) the points are drawn from: the
\* unit square of the minimality scenario, A(0,0) B(0,1) C(1,1) D(1,0).
Lats == {0, 1}

Lngs == {0, 1}

\* Values of the provincia column.
Provincias == {"P1", "P2"}

NoRoot == 0

-----------------------------------------------------------------------------
(* haversineDistance, lines 17-32 *)

\* Earth radius in km (line 19).
R == 6371

Abs(x) == IF x < 0 THEN -x ELSE x

\* The central angle c of line 29 in microradians, rounded: the value of
\* 2 * atan2(sqrt(aVal), sqrt(1 - aVal)) for aVal of lines 26-28 on the degree
\* grid Lats x Lngs.  aVal depends on |dLat|, |dLng| and, when dLng # 0, on
\* cos(lat1) * cos(lat2).  On this grid the rounding keeps every comparison
\* (<, =) of the floating-point distances.
CentralAngle(dLat, dLng, lat1, lat2) ==
    CASE Abs(dLat) = 0 /\ Abs(dLng) = 0 -> 0
      [] Abs(dLat) = 1 /\ Abs(dLng) = 0 -> 17453
      [] Abs(dLat) = 0 /\ Abs(dLng) = 1 /\ lat1 = 0 /\ lat2 = 0 -> 17453
      [] Abs(dLat) = 0 /\ Abs(dLng) = 1 /\ lat1 = 1 /\ lat2 = 1 -> 17451
      [] Abs(dLat) = 1 /\ Abs(dLng) = 1 -> 24682

\* R * c of line 31; the unit is km * 10^-6.
haversineDistance(a, b) ==
    R * CentralAngle(b.lat - a.lat, b.lng - a.lng, a.lat, b.lat)

-----------------------------------------------------------------------------
(* buildMinimumSpanningTree, lines 35-72 *)

\* Lines 39-47: the candidate edges, pairs (i, j) with i < j, outer loop on
\* i, inner on j (1-based here).
RECURSIVE EnumerateFrom(_, _, _)
EnumerateFrom(ns, i, j) ==
    IF i > Len(ns) THEN <<>>
    ELSE IF j > Len(ns) THEN EnumerateFrom(ns, i + 1, i + 2)
    ELSE <<[from |-> ns[i], to |-> ns[j],
            distance |-> haversineDistance(ns[i], ns[j])]>>
         \o EnumerateFrom(ns, i, j + 1)

\* An enumeration whose loops stop one short (j < nodes.length - 1).
EnumerateShort(ns) ==
    IF ns = <<>> THEN <<>>
    ELSE EnumerateFrom(SubSeq(ns, 1, Len(ns) - 1), 1, 2)

AllEdges(ns) == EnumerateFrom(ns, 1, 2)

\* Insert e behind every element that does not compare greater: the
\* comparator a.distance - b.distance with a stable sort (line 49;
\* Array.prototype.sort is stable since ES2019).
RECURSIVE InsertStable(_, _)
InsertStable(e, s) ==
    IF s = <<>> THEN <<e>>
    ELSE IF s[Len(s)].distance <= e.distance THEN Append(s, e)
    ELSE Append(InsertStable(e, SubSeq(s, 1, Len(s) - 1)), s[Len(s)])

\* Insert e in front of the elements of equal distance: an unstable sort.
RECURSIVE InsertUnstable(_, _)
InsertUnstable(e, s) ==
    IF s = <<>> THEN <<e>>
    ELSE IF s[Len(s)].distance < e.distance THEN Append(s, e)
    ELSE Append(InsertUnstable(e, SubSeq(s, 1, Len(s) - 1)), s[Len(s)])

Insert(e, s) == InsertStable(e, s)

RECURSIVE SortFold(_, _)
SortFold(s, n) ==
    IF n = 0 THEN <<>> ELSE Insert(s[n], SortFold(s, n - 1))

\* No sort at all: the edges stay in enumeration order.
Unsorted(s) == s

\* edges.sort((a, b) => a.distance - b.distance), line 49.
SortEdges(s) == SortFold(s, Len(s))

IdsOf(ns) == {ns[i].id : i \in 1..Len(ns)}

\* A map that is kept from the previous invocation and only extended.
StaleParent(ns) ==
    [id \in (DOMAIN parent) \cup IdsOf(ns) |->
        IF id \in DOMAIN parent THEN parent[id] ELSE id]

\* Lines 52 and 58: a fresh map, every id its own parent.
NewParent(ns) == [id \in IdsOf(ns) |-> id]

\* find of line 53, with its path compression: the root and the map after the
\* writes parent[id] = find(parent[id]).
RECURSIVE FindRec(_, _)
FindRec(p, id) ==
    IF p[id] # id
    THEN LET r == FindRec(p, p[id])
         IN  [root |-> r.root, parent |-> [r.parent EXCEPT ![id] = r.root]]
    ELSE [root |-> id, parent |-> p]

\* A find whose compression write makes the looked-up id its own parent.
FindDetaching(p, id) ==
    IF p[id] # id
    THEN [root |-> FindRec(p, id).root, parent |-> [p EXCEPT ![id] = id]]
    ELSE [root |-> id, parent |-> p]

find(p, id) == FindRec(p, id)

\* A union that forgets the write.
UnionNothing(p, a, b) == p

\* union of lines 54-56: parent[find(a)] = find(b); the key find(a) is
\* evaluated before the value find(b).
union(p, a, b) ==
    LET fa == find(p, a)
        fb == find(fa.parent, b)
    IN  [fb.parent EXCEPT ![fa.root] = fb.root]

\* Lines 36-60: the state of the invocation when the for-of loop starts.
Invoke(ns) ==
    /\ bNodes' = ns
    /\ edges' = SortEdges(AllEdges(ns))
    /\ parent' = NewParent(ns)
    /\ mst' = <<>>
    /\ k' = 1
    /\ rootA' = NoRoot
    /\ rootB' = NoRoot
    /\ pc' = "loop"

\* Line 63: const rootA = find(edge.from.id).
FindFrom ==
    /\ pc = "loop"
    /\ k <= Len(edges)
    /\ LET f == find(parent, edges[k].from.id)
       IN  /\ rootA' = f.root
           /\ parent' = f.parent
    /\ pc' = "findB"
    /\ UNCHANGED <<bNodes, edges, mst, k, rootB>>
    /\ UNCHANGED mapVars

\* Line 64: const rootB = find(edge.to.id).
FindTo ==
    /\ pc = "findB"
    /\ LET f == find(parent, edges[k].to.id)
       IN  /\ rootB' = f.root
           /\ parent' = f.parent
    /\ pc' = "test"
    /\ UNCHANGED <<bNodes, edges, mst, k, rootA>>
    /\ UNCHANGED mapVars

\* Lines 65-68, the roots differ: mst.push(edge); union(rootA, rootB).
Accept ==
    /\ pc = "test"
    /\ rootA # rootB
    /\ mst' = Append(mst, edges[k])
    /\ parent' = union(parent, rootA, rootB)
    /\ k' = k + 1
    /\ pc' = "loop"
    /\ UNCHANGED <<bNodes, edges, rootA, rootB>>
    /\ UNCHANGED mapVars

\* Line 65, the roots are equal: the edge is passed over.
Discard ==
    /\ pc = "test"
    /\ rootA = rootB
    /\ k' = k + 1
    /\ pc' = "loop"
    /\ UNCHANGED <<bNodes, edges, parent, mst, rootA, rootB>>
    /\ UNCHANGED mapVars

\* Line 71: the loop is over, return mst.
Return ==
    /\ pc = "loop"
    /\ k > Len(edges)
    /\ pc' = "returned"
    /\ UNCHANGED <<bNodes, edges, parent, mst, k, rootA, rootB>>
    /\ UNCHANGED mapVars

BuilderStep == FindFrom \/ FindTo \/ Accept \/ Discard \/ Return

-----------------------------------------------------------------------------
(* The inputs *)

Max(S) == CHOOSE x \in S : \A y \in S : y <= x

\* The id columns of n points up to renaming: the code only compares ids, so
\* the first point has id 1 and each later one an id already used or the
\* next unused one.  Equal entries are duplicate ids.
IdColumns(n) ==
    {f \in [1..n -> 1..n] :
        \A i \in 1..n : f[i] <= 1 + Max({0} \cup {f[j] : j \in 1..(i - 1)})}

\* The id column of n rows with unique ids.
UniqueColumn(n) == [i \in 1..n |-> i]

\* A point: ref is the identity of the object (its place in the list the
\* program first built it in), which the code never reads.
MkPoint(i, id, prov, pos) ==
    [ref |-> i, id |-> id, provincia |-> prov, lat |-> pos[1], lng |-> pos[2]]

\* The provincia columns of n rows up to renaming (the code only compares
\* provinces): the first row is of the first province.
ProvinciaColumns(n) ==
    {p \in [1..n -> Provincias] : n >= 1 => p[1] = "P1"}

\* The lists buildMinimumSpanningTree is invoked on under Spec: unique ids up
\* to MaxNodes points, any id column up to MaxDupNodes points.
InputLists ==
    UNION {{[i \in 1..n |-> MkPoint(i, f[i], "P1", c[i])] :
              f \in IF n <= MaxDupNodes THEN IdColumns(n) ELSE {UniqueColumn(n)},
              c \in [1..n -> Lats \X Lngs]} :
           n \in 0..MaxNodes}

\* What lines 111-119 can yield from data.csv under SpecMap.
CsvRows ==
    UNION {{[i \in 1..n |-> MkPoint(i, i, p[i], c[i])] :
              p \in ProvinciaColumns(n), c \in [1..n -> Lats \X Lngs]} :
           n \in 0..MaxRows}

-----------------------------------------------------------------------------
(* MapView, lines 74-217.  A handler runs to completion before the next    *)
(* event: the events are enabled at pc = "idle" only.  The markers of lines *)
(* 138-148 and selectedNode do not touch the polylines and are left out.    *)
(* A polyline is [edge, onMap]; once line 136 lets the array go, its        *)
(* polylines are kept in the set dropped, where equal ones coincide.        *)

\* A variant of line 155 that hands nodes, the unfiltered list, to the builder.
AllNodes == nodes

\* Lines 128-130.
filteredNodes ==
    IF provinceFilter = "Todas" THEN nodes
    ELSE SelectSeq(nodes, LAMBDA n : n.provincia = provinceFilter)

\* Line 180, the options of the select.
uniqueProvinces == {"Todas"} \cup {nodes[i].provincia : i \in 1..Len(nodes)}

\* A setMap(null) that is forgotten.
KeepOnMap(ps) == ps

\* p.setMap(null) on every polyline of a list (lines 135 and 176).
setMapNull(ps) == [i \in 1..Len(ps) |-> [ps[i] EXCEPT !.onMap = FALSE]]

\* Lines 157-170: one polyline per edge, attached to the map.
newPolylines(es) == [i \in 1..Len(es) |-> [edge |-> es[i], onMap |-> TRUE]]

Range(s) == {s[i] : i \in 1..Len(s)}

\* Lines 84-88: loadMap has run, setMap(mapInstance); the effect of line 125
\* is due, its dependency map having changed.
MapLoaded ==
    /\ pc = "idle"
    /\ ~map
    /\ map' = TRUE
    /\ pc' = "effect"
    /\ UNCHANGED <<nodes, fetched, provinceFilter, polylineRef, hasCleanup,
                   dropped, seen>>
    /\ UNCHANGED <<bNodes, edges, parent, mst, k, rootA, rootB>>

\* Lines 103-122: the fetch resolves, setNodes(parsedNodes).
NodesLoaded ==
    /\ pc = "idle"
    /\ ~fetched
    /\ \E rows \in CsvRows : nodes' = rows
    /\ fetched' = TRUE
    /\ pc' = "effect"
    /\ UNCHANGED <<map, provinceFilter, polylineRef, hasCleanup, dropped, seen>>
    /\ UNCHANGED <<bNodes, edges, parent, mst, k, rootA, rootB>>

\* Line 191: onChange of the select, setProvinceFilter(e.target.value).
ChangeFilter ==
    /\ pc = "idle"
    /\ \E v \in uniqueProvinces \ {provinceFilter} : provinceFilter' = v
    /\ pc' = "effect"
    /\ UNCHANGED <<map, nodes, fetched, polylineRef, hasCleanup, dropped, seen>>
    /\ UNCHANGED <<bNodes, edges, parent, mst, k, rootA, rootB>>

\* The cleanup of lines 174-177, when the previous run returned one.  Its
\* newPolylines is the array line 172 stored in polylineRef.current.
AfterCleanup == IF hasCleanup THEN setMapNull(polylineRef) ELSE polylineRef

\* The effect run that returns at line 126 and leaves no cleanup.
EffectReturnsEarly ==
    /\ pc = "effect"
    /\ ~map \/ Len(nodes) = 0
    /\ polylineRef' = AfterCleanup
    /\ hasCleanup' = FALSE
    /\ pc' = "idle"
    /\ UNCHANGED <<map, nodes, fetched, provinceFilter, dropped, seen>>
    /\ UNCHANGED <<bNodes, edges, parent, mst, k, rootA, rootB>>

\* The effect run up to the call of line 155: the previous cleanup, then
\* lines 128-136 (the old polylines are detached and the array let go).
EffectDraws ==
    /\ pc = "effect"
    /\ map /\ Len(nodes) # 0
    /\ dropped' = dropped \cup Range(setMapNull(AfterCleanup))
    /\ polylineRef' = <<>>
    /\ hasCleanup' = FALSE
    /\ Invoke(filteredNodes)
    /\ UNCHANGED <<map, nodes, fetched, provinceFilter, seen>>

\* Lines 155-177 after the call: the polylines of the returned edges are
\* created and attached, kept in polylineRef.current, and the cleanup is
\* returned.
EffectFinishes ==
    /\ pc = "returned"
    /\ polylineRef' = newPolylines(mst)
    /\ hasCleanup' = TRUE
    /\ seen' = seen \cup {<<bNodes, mst>>}
    /\ pc' = "idle"
    /\ UNCHANGED <<map, nodes, fetched, provinceFilter, dropped>>
    /\ UNCHANGED <<bNodes, edges, parent, mst, k, rootA, rootB>>

\* buildMinimumSpanningTree called on a list of its own (Spec).
Call ==
    /\ pc = "idle"
    /\ \E ns \in InputLists : Invoke(ns)
    /\ UNCHANGED mapVars

-----------------------------------------------------------------------------
(* The specifications *)

Init ==
    /\ map = FALSE
    /\ nodes = <<>>
    /\ fetched = FALSE
    /\ provinceFilter = "Todas"
    /\ polylineRef = <<>>
    /\ hasCleanup = FALSE
    /\ dropped = {}
    /\ pc = "idle"
    /\ bNodes = <<>>
    /\ edges = <<>>
    /\ parent = <<>>
    /\ mst = <<>>
    /\ k = 1
    /\ rootA = NoRoot
    /\ rootB = NoRoot
    /\ seen = {}

Next == Call \/ BuilderStep

Spec == Init /\ [][Next]_vars

NextMap ==
    \/ MapLoaded
    \/ NodesLoaded
    \/ ChangeFilter
    \/ EffectReturnsEarly
    \/ EffectDraws
    \/ EffectFinishes
    \/ BuilderStep

SpecMap == Init /\ [][NextMap]_vars

-----------------------------------------------------------------------------
(* Reference definitions the properties are stated with *)

\* The vertices reachable from S over the undirected edges E (pairs).
RECURSIVE ReachFrom(_, _)
ReachFrom(S, E) ==
    LET T == S \cup {e[2] : e \in {d \in E : d[1] \in S}}
                \cup {e[1] : e \in {d \in E : d[2] \in S}}
    IN  IF T = S THEN S ELSE ReachFrom(T, E)

ConnectsAll(V, E) == \A v \in V : ReachFrom({v}, E) = V

RECURSIVE Weight(_)
Weight(es) == IF es = <<>> THEN 0 ELSE es[1].distance + Weight(Tail(es))

RECURSIVE SumOver(_, _)
SumOver(T, ns) ==
    IF T = {} THEN 0
    ELSE LET t == CHOOSE x \in T : TRUE
         IN  haversineDistance(ns[t[1]], ns[t[2]]) + SumOver(T \ {t}, ns)

\* Every spanning tree of the complete graph on the positions 1..n.
SpanningTrees(n) ==
    {T \in SUBSET {<<i, j>> \in (1..n) \X (1..n) : i < j} :
        Cardinality(T) = n - 1 /\ ConnectsAll(1..n, T)}

MinSpanWeight(ns) ==
    LET W == {SumOver(T, ns) : T \in SpanningTrees(Len(ns))}
    IN  CHOOSE w \in W : \A v \in W : w <= v

UniqueIds(ns) == Cardinality(IdsOf(ns)) = Len(ns)

RefPairs(es) == {<<es[n].from.ref, es[n].to.ref>> : n \in 1..Len(es)}

IdPairs(es) == {<<es[n].from.id, es[n].to.id>> : n \in 1..Len(es)}

Refs(ns) == {ns[i].ref : i \in 1..Len(ns)}

PosIn(s, e) == CHOOSE i \in 1..Len(s) : s[i] = e

\* Follow the parent links n times.
RECURSIVE Chase(_, _, _)
Chase(p, id, n) == IF n = 0 THEN id ELSE Chase(p, p[id], n - 1)

RootMap(p) == [id \in DOMAIN p |-> Chase(p, id, Cardinality(DOMAIN p))]

\* No cycle but the self-loops of the roots: every chain ends in a root.
CycleFree(p) == \A id \in DOMAIN p : p[RootMap(p)[id]] = RootMap(p)[id]

InBuilder == pc \in {"loop", "findB", "test"}

IsSquare(ns) ==
    /\ Len(ns) = 4
    /\ <<ns[1].lat, ns[1].lng>> = <<0, 0>>
    /\ <<ns[2].lat, ns[2].lng>> = <<0, 1>>
    /\ <<ns[3].lat, ns[3].lng>> = <<1, 1>>
    /\ <<ns[4].lat, ns[4].lng>> = <<1, 0>>

-----------------------------------------------------------------------------
(* The claims *)

\* C1: for a list of N >= 1 points with unique ids, the distances of the
\* returned edges sum to the least total distance of any spanning tree of
\* the complete graph on the points (every spanning tree is enumerated).
C1_MinimumWeight ==
    (pc = "returned" /\ Len(bNodes) >= 1 /\ UniqueIds(bNodes))
        => Weight(mst) = MinSpanWeight(bNodes)

\* C1 witness: the builder has returned on the square A(0,0) B(0,1) C(1,1)
\* D(1,0), which has 16 spanning trees, with three edges and no diagonal.
C1_Witness ==
    /\ pc = "returned" /\ UniqueIds(bNodes) /\ IsSquare(bNodes)
    /\ Cardinality(SpanningTrees(4)) = 16
    /\ Len(mst) = 3
    /\ \A n \in 1..3 : mst[n].distance < haversineDistance(bNodes[1], bNodes[3])

\* C2: for a list of N >= 1 points with unique ids, the returned edges alone
\* connect all N points into one component.
C2_Spanning ==
    (pc = "returned" /\ Len(bNodes) >= 1 /\ UniqueIds(bNodes))
        => ConnectsAll(Refs(bNodes), RefPairs(mst))

\* C2 witness: a returned tree over at least three points with unique ids.
C2_Witness ==
    pc = "returned" /\ UniqueIds(bNodes) /\ Len(bNodes) >= 3 /\ Len(mst) >= 2

\* C3: for a list of N points with unique ids, exactly N-1 edges are
\* returned when N >= 1 and none when N = 0 or N = 1.
C3_EdgeCount ==
    (pc = "returned" /\ UniqueIds(bNodes))
        => Len(mst) = (IF Len(bNodes) = 0 THEN 0 ELSE Len(bNodes) - 1)

\* C3 witness: a return on a list long enough that some candidate edge was
\* passed over.
C3_Witness ==
    /\ pc = "returned" /\ UniqueIds(bNodes)
    /\ Len(bNodes) >= 3 /\ Len(mst) < Len(edges)

\* C4: in every state, each accepted edge joined two points that the edges
\* accepted before it did not connect, so the accepted edges have no cycle;
\* and an edge about to be accepted has unconnected endpoints.
C4_Acyclic ==
    /\ \A n \in 1..Len(mst) :
          mst[n].to.id \notin
              ReachFrom({mst[n].from.id}, IdPairs(SubSeq(mst, 1, n - 1)))
    /\ (pc = "test" /\ rootA # rootB)
          => edges[k].to.id \notin ReachFrom({edges[k].from.id}, IdPairs(mst))

\* C4 witness: an edge is being passed over because its endpoints are
\* already connected through two accepted edges.
C4_Witness ==
    /\ pc = "test" /\ rootA = rootB /\ Len(mst) >= 2
    /\ edges[k].from.id # edges[k].to.id

\* C6: the accepted edges are a subsequence of the candidate edges, which
\* hold every pair once, ascending by distance, equal distances in the order
\* of enumeration (pairs (i, j), i < j, outer loop on i).
C6_StableOrder ==
    (InBuilder \/ pc = "returned") =>
        /\ Len(edges) * 2 = Len(bNodes) * (Len(bNodes) - 1)
        /\ \A i, j \in 1..Len(bNodes) :
              i < j => \E n \in 1..Len(edges) :
                          edges[n].from = bNodes[i] /\ edges[n].to = bNodes[j]
        /\ \A m, n \in 1..Len(edges) :
              m < n =>
                 /\ edges[m].distance <= edges[n].distance
                 /\ edges[m].distance = edges[n].distance
                       => \/ edges[m].from.ref < edges[n].from.ref
                          \/ /\ edges[m].from.ref = edges[n].from.ref
                             /\ edges[m].to.ref < edges[n].to.ref
        /\ \A n \in 1..Len(mst) : \E i \in 1..Len(edges) : edges[i] = mst[n]
        /\ \A m, n \in 1..Len(mst) :
              m < n => /\ PosIn(edges, mst[m]) < PosIn(edges, mst[n])
                       /\ mst[m].distance <= mst[n].distance

\* C6 witness: two accepted edges of equal distance, with a candidate passed
\* over.
C6_Witness ==
    /\ pc = "returned" /\ Len(mst) < Len(edges)
    /\ \E m, n \in 1..Len(mst) :
          m < n /\ mst[m].distance = mst[n].distance /\ mst[m].distance > 0

\* One step of an invocation, as C9 requires it: the map starts as the
\* identity; a step other than the union of an accepted edge leaves every
\* root unchanged; a find returns the root; a passed-over edge writes
\* nothing; no cycle arises.
C9_Step ==
    /\ (~InBuilder /\ pc' = "loop") => \A id \in DOMAIN parent' : parent'[id] = id
    /\ (InBuilder /\ ~(pc = "test" /\ rootA # rootB))
          => RootMap(parent') = RootMap(parent)
    /\ (pc = "loop" /\ pc' = "findB")
          => rootA' = RootMap(parent)[edges[k].from.id]
    /\ (pc = "findB" /\ pc' = "test")
          => rootB' = RootMap(parent)[edges[k].to.id]
    /\ (pc = "test" /\ rootA = rootB) => parent' = parent
    /\ CycleFree(parent')

\* C9: the union-find map starts as the identity, only the union of an
\* accepted edge changes a root or the partition (a find, with its
\* compression writes, does not), and the map stays free of cycles.
C9_UnionFind == [][C9_Step]_vars

\* C9 witness: a find is due on an id two links away from its root, so that
\* its path compression writes to the map.
C9_Witness ==
    /\ pc = "loop" /\ k <= Len(edges)
    /\ parent[parent[edges[k].from.id]] # parent[edges[k].from.id]

\* C10: with duplicate ids the builder returns without error, accepts no edge
\* between two points of the same id, and returns D-1 edges, D the number of
\* distinct ids, which do not connect all N points.
C10_DuplicateIds ==
    (pc = "returned" /\ ~UniqueIds(bNodes)) =>
        /\ Len(mst) = Cardinality(IdsOf(bNodes)) - 1
        /\ Len(mst) < Len(bNodes) - 1
        /\ \A n \in 1..Len(mst) : mst[n].from.id # mst[n].to.id
        /\ ~ConnectsAll(Refs(bNodes), RefPairs(mst))

\* C10 witness: a return on a list with a duplicated id and at least two
\* distinct ids, an edge accepted.
C10_Witness ==
    /\ pc = "returned" /\ ~UniqueIds(bNodes)
    /\ Cardinality(IdsOf(bNodes)) >= 2 /\ Len(mst) >= 1

\* The points of the loaded list that match the current filter.
Matching == IF provinceFilter = "Todas" THEN Range(nodes)
            ELSE {n \in Range(nodes) : n.provincia = provinceFilter}

\* C5: an invocation on a list returns the edges, in the order, that every
\* earlier invocation on the same list returned, whatever lists the builder
\* was invoked on in between.
C5_Deterministic ==
    /\ \A a, b \in seen : a[1] = b[1] => a[2] = b[2]
    /\ pc = "returned" => \A a \in seen : a[1] = bNodes => a[2] = mst

\* C5 witness: the builder has returned a second time on the whole list,
\* which has edges of equal distance, after an invocation on another list.
C5_Witness ==
    /\ pc = "returned" /\ provinceFilter = "Todas" /\ Len(mst) >= 2
    /\ \E a \in seen : a[1] = bNodes
    /\ \E b \in seen : b[1] # bNodes /\ Len(b[2]) >= 1
    /\ \E m, n \in 1..Len(edges) : m # n /\ edges[m].distance = edges[n].distance

\* C7: while the builder runs on the points matching the filter, and after
\* it has returned, both endpoints of every candidate, accepted and drawn
\* edge are points that match the filter.
C7_SubsetOnly ==
    pc # "effect" =>
        /\ Range(bNodes) \subseteq Matching
        /\ \A e \in Range(edges) \cup Range(mst)
                    \cup {polylineRef[i].edge : i \in 1..Len(polylineRef)} :
              e.from \in Matching /\ e.to \in Matching

\* C7 witness: the builder has returned an edge for a filter that leaves out
\* a loaded point.
C7_Witness ==
    /\ pc = "returned" /\ provinceFilter # "Todas"
    /\ Len(bNodes) < Len(nodes) /\ Len(mst) >= 1

\* C8: once the map and the points are loaded and the effect has run, the
\* polylines on the map are those of the edges the builder returned for the
\* points matching the current filter, and no polyline of an earlier run is
\* on the map.
C8_Redrawn ==
    /\ \A p \in dropped : ~p.onMap
    /\ (pc = "idle" /\ map /\ Len(nodes) > 0) =>
          /\ Range(bNodes) = Matching
          /\ Len(bNodes) = Cardinality(Matching)
          /\ Len(polylineRef) = Len(mst)
          /\ \A i \in 1..Len(mst) :
                polylineRef[i].edge = mst[i] /\ polylineRef[i].onMap
          /\ <<bNodes, mst>> \in seen
    /\ (pc = "idle" /\ Len(nodes) = 0) => polylineRef = <<>>

\* C8 witness: after a filter change the tree of a province is on the map
\* and the polylines drawn before are let go.
C8_Witness ==
    /\ pc = "idle" /\ map /\ provinceFilter # "Todas"
    /\ Len(polylineRef) >= 1 /\ dropped # {}
    /\ Len(bNodes) < Len(nodes)

=============================================================================
